---- MODULE Spec2Model ----
(***************************************************************************)
(* Relevance ranking of policies for a company                             *)
(* (src/src/ranking.py, src/src/utils.py).                                 *)
(*                                                                         *)
(* Text is modelled as a sequence of tokens.  A token is a one-character   *)
(* string, or a whole word where the code never looks inside the word      *)
(* (country names).  The token " " is one blank.  A missing cell (NaN) of  *)
(* a text column is the reserved one-token sequence NaN, which no text     *)
(* contains; Python's None is the string None.                             *)
(* Similarity scores are tenths: 9 is 0.9.                                 *)
(***************************************************************************)
EXTENDS Integers, Sequences, FiniteSets

(***************************************************************************)
(* Bounds of the model.                                                    *)
(***************************************************************************)
MaxPolicies == 3
MaxLimit == 2
MaxCalls == 2
MaxTags == 2

NaN == <<"<NaN>">>
None == "None"

isna(v) == v = NaN

Min(a, b) == IF a < b THEN a ELSE b

(***************************************************************************)
(* str.strip(), str.lower(), `a in b`, ' '.join(xs)                        *)
(***************************************************************************)
RECURSIVE lstrip(_)
lstrip(s) == IF s # <<>> /\ Head(s) = " " THEN lstrip(Tail(s)) ELSE s

RECURSIVE rstrip(_)
rstrip(s) ==
    IF s # <<>> /\ s[Len(s)] = " " THEN rstrip(SubSeq(s, 1, Len(s) - 1)) ELSE s

strip(s) == rstrip(lstrip(s))

lower_char(c) ==
    CASE c = "A" -> "a"
      [] c = "B" -> "b"
      [] c = "W" -> "w"
      [] c = "H" -> "h"
      [] OTHER -> c

lower(s) == [i \in 1..Len(s) |-> lower_char(s[i])]

\* Python's `a in b` on strings
contains(b, a) ==
    \E i \in 1..(Len(b) - Len(a) + 1) : SubSeq(b, i, i + Len(a) - 1) = a

RECURSIVE join(_)
join(xs) ==
    IF xs = <<>> THEN <<>>
    ELSE IF Len(xs) = 1 THEN xs[1]
    ELSE xs[1] \o <<" ">> \o join(Tail(xs))

(***************************************************************************)
(* utils.get_continent                                                     *)
(***************************************************************************)
geography_mappings ==
    [s \in {<<"USA">>, <<"US">>, <<"UK">>, <<"UAE">>} |->
        CASE s = <<"USA">> -> <<"United States">>
          [] s = <<"US">> -> <<"United States">>
          [] s = <<"UK">> -> <<"United Kingdom">>
          [] s = <<"UAE">> -> <<"United Arab Emirates">>]

\* pycountry_convert's tables, restricted to the countries of the model.  A
\* name or code outside a table's domain is the library's KeyError.
country_name_to_country_alpha2 ==
    [s \in {<<"Kenya">>, <<"India">>, <<"United States">>, <<"United Kingdom">>,
            <<"United Arab Emirates">>, <<"Antarctica">>} |->
        CASE s = <<"Kenya">> -> "KE"
          [] s = <<"India">> -> "IN"
          [] s = <<"United States">> -> "US"
          [] s = <<"United Kingdom">> -> "GB"
          [] s = <<"United Arab Emirates">> -> "AE"
          [] s = <<"Antarctica">> -> "AQ"]

country_alpha2_to_continent_code ==
    [c \in {"KE", "IN", "US", "GB", "AE"} |->
        CASE c = "KE" -> "AF"
          [] c = "IN" -> "AS"
          [] c = "US" -> "NA"
          [] c = "GB" -> "EU"
          [] c = "AE" -> "AS"]

convert_continent_code_to_continent_name ==
    [c \in {"AF", "AS", "NA", "EU"} |->
        CASE c = "AF" -> "Africa"
          [] c = "AS" -> "Asia"
          [] c = "NA" -> "North America"
          [] c = "EU" -> "Europe"]

\* an except clause that does not name KeyError
caught_without_KeyError == {"AttributeError", "ValueError"}

\* line 40: except (KeyError, AttributeError, ValueError)
caught_exceptions == {"KeyError", "AttributeError", "ValueError"}

\* the try statement of lines 34-43 when the body raises e: a caught exception
\* falls through to `return None`, another one leaves get_continent.  An
\* exception that leaves is given as its name in place of the value.
on_exception(e) == IF e \in caught_exceptions THEN None ELSE e

get_continent(geography_str) ==
    IF isna(geography_str) THEN None
    ELSE LET stripped == strip(geography_str)
             name == IF stripped \in DOMAIN geography_mappings
                     THEN geography_mappings[stripped] ELSE stripped
         IN  IF name \notin DOMAIN country_name_to_country_alpha2
             THEN on_exception("KeyError")
             ELSE LET a2 == country_name_to_country_alpha2[name]
                  IN  IF a2 \notin DOMAIN country_alpha2_to_continent_code
                      THEN on_exception("KeyError")
                      ELSE convert_continent_code_to_continent_name[
                               country_alpha2_to_continent_code[a2]]

(***************************************************************************)
(* utils.parse_sector_list.  A raw sectors cell is given by what           *)
(* ast.literal_eval(str(cell)) makes of it:                                *)
(*   kind "nan"    the cell is missing;                                   *)
(*   kind "list"   the text is a list literal whose elements are elems;    *)
(*   kind "scalar" the text is a literal that is not a list, elems[1] is   *)
(*                 str() of it;                                            *)
(*   kind "text"   the text is no literal (ValueError / SyntaxError),      *)
(*                 elems[1] is the text itself.                            *)
(***************************************************************************)
parse_sector_list(sector_str) ==
    IF sector_str.kind = "nan" THEN <<>>
    ELSE IF sector_str.kind = "list" THEN sector_str.elems
    ELSE IF sector_str.kind = "scalar" THEN <<sector_str.elems[1]>>
    ELSE <<sector_str.elems[1]>>

\* lambda x: ' '.join(x) if x else ''
sector_text_of(parsed) == IF parsed # <<>> THEN join(parsed) ELSE <<>>

(***************************************************************************)
(* Series.str.contains(pat, case=False, na=False): pat is compiled as a    *)
(* regular expression with re.IGNORECASE and searched in each name.  The   *)
(* model covers literal characters, "." and group parentheses.             *)
(***************************************************************************)
RECURSIVE paren_depth_ok(_, _)
paren_depth_ok(pat, depth) ==
    IF pat = <<>> THEN depth = 0
    ELSE IF Head(pat) = "(" THEN paren_depth_ok(Tail(pat), depth + 1)
    ELSE IF Head(pat) = ")" THEN depth > 0 /\ paren_depth_ok(Tail(pat), depth - 1)
    ELSE paren_depth_ok(Tail(pat), depth)

\* re.compile(pat) succeeds; otherwise it raises re.error
re_compile_ok(pat) == paren_depth_ok(pat, 0)

re_search(pat, x) ==
    LET p == SelectSeq(pat, LAMBDA c : c \notin {"(", ")"})
    IN  \E i \in 1..(Len(x) - Len(p) + 1) :
            \A k \in 1..Len(p) :
                p[k] = "." \/ lower_char(p[k]) = lower_char(x[i + k - 1])

str_contains(name, pat) == IF isna(name) THEN FALSE ELSE re_search(pat, name)

\* companies_df[companies_df['name'].str.contains(...)]: the matching row labels
matching_companies(df, pat) == {i \in 1..Len(df) : str_contains(df[i].name, pat)}

(***************************************************************************)
(* DataFrame.sort_values('sector_similarity', ascending=False): the default *)
(* kind is 'quicksort', which is not stable, so rows of equal similarity   *)
(* may come out in any order.  The sort is an algorithm without randomness, *)
(* so one build of the libraries resolves ties one way, every time:        *)
(* tie_break is the way of the build the process runs on.                  *)
(***************************************************************************)
VARIABLE tie_break

\* "first": equal rows keep snapshot order; "last": they come out reversed
TieBreaks == {"first", "last"}

\* a sort whose order of equal rows is anything, each time
tie_order_any(kind, id_before, id_after) == kind \in TieBreaks

tie_order_ok(kind, id_before, id_after) ==
    IF kind = "first" THEN id_before < id_after ELSE id_before > id_after

Perms(n) == {p \in [1..n -> 1..n] : \A i, j \in 1..n : i # j => p[i] # p[j]}

\* ascending=True
sort_values_asc(df) ==
    {[i \in 1..Len(df) |-> df[p[i]]] :
        p \in {q \in Perms(Len(df)) :
                 \A i, j \in 1..Len(df) :
                    i < j => df[q[i]].sector_similarity <= df[q[j]].sector_similarity}}

sort_values_desc(df) ==
    {[i \in 1..Len(df) |-> df[p[i]]] :
        p \in {q \in Perms(Len(df)) :
                 \A i, j \in 1..Len(df) :
                    i < j =>
                        /\ df[q[i]].sector_similarity >= df[q[j]].sector_similarity
                        /\ df[q[i]].sector_similarity = df[q[j]].sector_similarity
                            => tie_order_ok(tie_break, df[q[i]].id, df[q[j]].id)}}

\* DataFrame.head(n), n >= 0
head(df, n) == SubSeq(df, 1, Min(n, Len(df)))

(***************************************************************************)
(* Formatting                                                              *)
(***************************************************************************)
\* str() of a small natural number
int_str(n) ==
    CASE n = 0 -> "0" [] n = 1 -> "1" [] n = 2 -> "2" [] n = 3 -> "3"
      [] n = 4 -> "4" [] n = 5 -> "5" [] n = 6 -> "6" [] n = 7 -> "7"
      [] n = 8 -> "8" [] n = 9 -> "9" [] OTHER -> "many"

\* f'{x:.3f}' of a score given in tenths
fmt_3f(score) == IF score >= 10 THEN "1.000" ELSE "0." \o int_str(score) \o "00"

scope_continental(continent) == <<"Continental (", continent, ")">>

scope_mixed(continental_count, remaining_slots) ==
    <<"Mixed (", int_str(continental_count), " continental + ",
      int_str(remaining_slots), " global)">>

scope_global_no_match == <<"Global (no continental match)">>

scope_global_unknown == <<"Global (company continent unknown)">>

(***************************************************************************)
(* Inputs: the two snapshot files, the embedding model, the arguments.     *)
(***************************************************************************)
Water == <<"W">>
Health == <<"H">>
Blank == <<" ">>

Row(geography, sectors) == [geography |-> geography, sectors |-> sectors]

ListCell(elems) == [kind |-> "list", elems |-> elems]

NanCell == [kind |-> "nan", elems |-> <<>>]

PolicyRows ==
    { Row(<<"Kenya">>, ListCell(<<Water>>)),
      Row(<<"Kenya">>, ListCell(<<Health>>)),
      Row(<<"India">>, ListCell(<<Water>>)),
      Row(<<"Atlantis">>, ListCell(<<Health>>)),
      Row(<<"India">>, NanCell),
      Row(<<"Kenya">>, ListCell(<<Blank>>)) }

PolicySnapshots == UNION {[1..n -> PolicyRows] : n \in 0..MaxPolicies}

Company(name, sector, jurisdiction) ==
    [name |-> name, sector |-> sector, operating_jurisdiction |-> jurisdiction]

CompanySnapshots ==
    { << Company(<<"A", "b">>, <<"w">>, <<"Kenya">>),
         Company(NaN, <<"w">>, <<"India">>),
         Company(<<"b", "a">>, <<"w">>, <<" ", "Atlantis">>) >> }

\* "aB" finds "Ab" (case is ignored), ".a" finds "ba" (a regular expression),
\* "c" finds nothing, "(" does not compile
QueryNames == { <<"a", "B">>, <<".", "a">>, <<"c">>, <<"(">> }

Limits == 1..MaxLimit

Scores == {5, 9}

\* the sector texts the embedding model is asked about for a snapshot
TextsOf(pol) ==
    {sector_text_of(parse_sector_list(pol[i].sectors)) : i \in 1..Len(pol)}

VARIABLES
    companies_df,        \* src/data/cleaned_companies.csv
    policies_df,         \* src/data/cleaned_policies.csv
    cosine,              \* sector text -> cosine similarity to the company sector
    pc,                  \* position in get_top_relevant_policies_rag
    company_name,        \* argument
    limit,               \* argument
    target,              \* row label of the target company, 0 before it is found
    company_continent,
    steps,               \* the stages this call has run: "parse", "encode", "score"
    policies_with_sectors, \* the processed policy rows that have sector text
    policies_to_rank,    \* policies_with_sectors with their similarity
    top_policies,
    geographic_scope,
    results,
    outcome,             \* how the call ended
    error,               \* the exception that left the call, "none" if none did
    model_loads,         \* SentenceTransformer(...) constructions of this process
    calls,               \* calls of get_top_relevant_policies_rag by this process
    prev,                \* arguments and result of the call before this one
    util_pc,             \* "off", or "ready" / "done" around a helper call
    util_in,             \* the value a helper function is applied to
    util_fn,             \* the helper function applied
    util_out,            \* what it did: [raised, value]
    report_pc,           \* "off", or the position in print_policy_ranking_report
    report_call,         \* its arguments
    report_target,       \* row label of the company it found, 0 before
    printed,             \* the lines it has printed
    report_error         \* the exception that left it, "none" if none did

\* the variables of get_top_relevant_policies_rag
ranker == <<companies_df, policies_df, cosine, tie_break, pc, company_name, limit,
            target, company_continent, steps, policies_with_sectors,
            policies_to_rank, top_policies, geographic_scope, results, outcome,
            error, model_loads, calls, prev>>

\* the variables of a direct call of a helper function
utils == <<util_pc, util_in, util_fn, util_out>>

\* the variables of print_policy_ranking_report
report == <<report_pc, report_call, report_target, printed, report_error>>

\* the variables the ranker does not touch
outside == <<utils, report>>

vars == <<ranker, outside>>

NoOutcome == [raised |-> "none", value |-> <<>>]

NoValue == [kind |-> "nan", elems |-> <<>>]

utils_off ==
    /\ util_pc = "off"
    /\ util_in = NoValue
    /\ util_fn = "none"
    /\ util_out = NoOutcome

NoArguments == [company_name |-> <<>>, limit |-> 0]

report_locals(at) ==
    /\ report_pc = at
    /\ report_call = NoArguments
    /\ report_target = 0
    /\ printed = <<>>
    /\ report_error = "none"

report_off == report_locals("off")

\* what no call changes: the two files, the model's weights, the build
files == <<companies_df, policies_df, cosine, tie_break>>

NoCall == [company_name |-> <<>>, limit |-> 0, results |-> <<>>, outcome |-> "none"]

\* the state of a process before its first call, its files drawn from `snapshots`
ranker_idle(snapshots, scores) ==
    /\ companies_df \in CompanySnapshots
    /\ policies_df \in snapshots
    /\ cosine \in [TextsOf(policies_df) -> scores]
    /\ tie_break \in TieBreaks
    /\ pc = "idle"
    /\ company_name = <<>>
    /\ limit = 1
    /\ target = 0
    /\ company_continent = None
    /\ steps = {}
    /\ policies_with_sectors = <<>>
    /\ policies_to_rank = <<>>
    /\ top_policies = <<>>
    /\ geographic_scope = <<>>
    /\ results = <<>>
    /\ outcome = "none"
    /\ error = "none"
    /\ model_loads = 0
    /\ calls = 0
    /\ prev = NoCall

InitWith(snapshots, scores) ==
    /\ ranker_idle(snapshots, scores)
    /\ utils_off
    /\ report_off

Init == InitWith(PolicySnapshots, Scores)

\* get_top_relevant_policies_rag(company_name, limit) is called
Call ==
    /\ pc = "idle"
    /\ \E name \in QueryNames, l \in Limits :
        /\ company_name' = name
        /\ limit' = l
    /\ pc' = "find"
    /\ calls' = calls + 1
    /\ UNCHANGED <<outside, files, target, company_continent, steps, policies_with_sectors,
                   policies_to_rank, top_policies, geographic_scope, results, outcome,
                   error, model_loads, prev>>

\* ranking.py lines 27-43: find the target company, resolve its continent
FindCompany ==
    /\ pc = "find"
    /\ IF ~re_compile_ok(company_name)
       THEN \* re.error leaves the function
            /\ outcome' = "raised"
            /\ error' = "re.error"
            /\ pc' = "done"
            /\ UNCHANGED <<target, company_continent>>
       ELSE LET target_company == matching_companies(companies_df, company_name)
            IN  IF target_company = {}
                THEN \* print("Company ... not found"); return []
                     /\ outcome' = "CompanyNotFound"
                     /\ pc' = "done"
                     /\ UNCHANGED <<target, company_continent, error>>
                ELSE \* target_company.iloc[0]
                     LET first == CHOOSE i \in target_company :
                                     \A j \in target_company : i <= j
                     IN  /\ target' = first
                         /\ company_continent' =
                                get_continent(companies_df[first].operating_jurisdiction)
                         /\ pc' = "process"
                         /\ UNCHANGED <<outcome, error>>
    /\ UNCHANGED <<outside, files, company_name, limit, steps, policies_with_sectors,
                   policies_to_rank, top_policies, geographic_scope, results,
                   model_loads, calls, prev>>

\* lines 46-50: one row of policies_df with its derived columns
processed_row(df, i) ==
    LET parsed == parse_sector_list(df[i].sectors)
    IN  [id |-> i,
         geography |-> df[i].geography,
         parsed_sectors |-> parsed,
         sector_text |-> sector_text_of(parsed),
         continent |-> get_continent(df[i].geography),
         sector_similarity |-> 0]

\* a filter that also drops one-character sector texts
has_sector_text_gt1(row) == Len(row.sector_text) > 1

\* line 53: policies_df[policies_df['sector_text'].str.len() > 0]
has_sector_text(row) == Len(row.sector_text) > 0

filter_with_sectors(df) ==
    SelectSeq([i \in 1..Len(df) |-> processed_row(df, i)], has_sector_text)

\* the sectors are parsed and filtered, but an empty frame is not noticed
ProcessPolicies_no_empty_check ==
    /\ pc = "process"
    /\ steps' = steps \cup {"parse"}
    /\ policies_with_sectors' = filter_with_sectors(policies_df)
    /\ pc' = "encode"
    /\ UNCHANGED <<outside, files, company_name, limit, target, company_continent,
                   policies_to_rank, top_policies, geographic_scope, results,
                   outcome, error, model_loads, calls, prev>>

\* lines 45-59: parse the sectors, resolve the continents, drop the empty ones
ProcessPolicies ==
    /\ pc = "process"
    /\ steps' = steps \cup {"parse"}
    /\ policies_with_sectors' = filter_with_sectors(policies_df)
    /\ IF policies_with_sectors' = <<>>
       THEN \* print('No policies found with sector information'); return []
            /\ outcome' = "NoCandidatePolicies"
            /\ pc' = "done"
       ELSE /\ pc' = "encode"
            /\ UNCHANGED outcome
    /\ UNCHANGED <<outside, files, company_name, limit, target, company_continent,
                   policies_to_rank, top_policies, geographic_scope, results,
                   error, model_loads, calls, prev>>

\* lines 70-78: the similarity column
with_similarity(df, sim) ==
    [i \in 1..Len(df) |-> [df[i] EXCEPT !.sector_similarity = sim[df[i].sector_text]]]

\* lines 61-78: load the model, encode, score
Encode ==
    /\ pc = "encode"
    /\ model_loads' = model_loads + 1
    /\ steps' = steps \cup {"load", "encode", "score"}
    /\ policies_to_rank' = with_similarity(policies_with_sectors, cosine)
    /\ pc' = "select"
    /\ UNCHANGED <<outside, files, company_name, limit, target, company_continent,
                   policies_with_sectors, top_policies, geographic_scope, results,
                   outcome, error, calls, prev>>

\* a handler that turns the failure into "no policies"
embedding_failure_swallowed == "NoCandidatePolicies"

\* lines 62-71: nothing catches what SentenceTransformer(...) or model.encode
\* raises, so the exception leaves the function
embedding_failure_outcome == "raised"

\* lines 61-71: the model fails to load, or loads and fails to encode
EncodeFails ==
    /\ pc = "encode"
    /\ \E loaded \in BOOLEAN :
        /\ model_loads' = IF loaded THEN model_loads + 1 ELSE model_loads
        /\ steps' = steps \cup (IF loaded THEN {"load", "encode"} ELSE {"load"})
    /\ error' = "EmbeddingBackendError"
    /\ outcome' = embedding_failure_outcome
    /\ pc' = "done"
    /\ UNCHANGED <<outside, files, company_name, limit, target, company_continent,
                   policies_with_sectors, policies_to_rank, top_policies,
                   geographic_scope, results, calls, prev>>

\* lines 83-86: the two partitions
continental_of(df, continent) ==
    SelectSeq(df, LAMBDA r : r.continent = continent)

non_continental_of(df, continent) ==
    SelectSeq(df, LAMBDA r : r.continent # continent)

\* a guard that only takes the empty string as unknown
truthy_not_empty(continent) == continent # ""

\* `if company_continent:`
truthy(continent) == continent # None /\ continent # ""

\* lines 88-94
select_continental(df, continent, n) ==
    {[top |-> head(sorted, n), scope |-> scope_continental(continent)] :
        sorted \in sort_values_desc(continental_of(df, continent))}

\* the fill takes `limit` rows instead of the remaining slots
select_mixed_fill_limit(df, continent, n) ==
    LET continental_count == Len(continental_of(df, continent))
        remaining_slots == n - continental_count
    IN  {[top |-> top_continental \o head(sorted_rest, n),
          scope |-> scope_mixed(continental_count, remaining_slots)] :
            top_continental \in sort_values_desc(continental_of(df, continent)),
            sorted_rest \in sort_values_desc(non_continental_of(df, continent))}

\* the two groups are merged and sorted together
select_mixed_merged(df, continent, n) ==
    LET continental_count == Len(continental_of(df, continent))
        remaining_slots == n - continental_count
    IN  {[top |-> head(sorted, n),
          scope |-> scope_mixed(continental_count, remaining_slots)] :
            sorted \in sort_values_desc(df)}

\* the fill is taken in snapshot order, unsorted
select_mixed_unsorted_fill(df, continent, n) ==
    LET continental_count == Len(continental_of(df, continent))
        remaining_slots == n - continental_count
    IN  {[top |-> top_continental
                    \o head(non_continental_of(df, continent), remaining_slots),
          scope |-> scope_mixed(continental_count, remaining_slots)] :
            top_continental \in sort_values_desc(continental_of(df, continent))}

\* lines 95-114
select_mixed(df, continent, n) ==
    LET continental_count == Len(continental_of(df, continent))
        remaining_slots == n - continental_count
    IN  {[top |-> top_continental \o head(sorted_rest, remaining_slots),
          scope |-> scope_mixed(continental_count, remaining_slots)] :
            top_continental \in sort_values_desc(continental_of(df, continent)),
            sorted_rest \in sort_values_desc(non_continental_of(df, continent))}

\* lines 115-121 and 122-128
select_global(df, n, scope) ==
    {[top |-> head(sorted, n), scope |-> scope] : sorted \in sort_values_desc(df)}

\* the threshold test is `>` instead of `>=`
select_top_strict(df, continent, n) ==
    IF truthy(continent)
    THEN IF Len(continental_of(df, continent)) > n
         THEN select_continental(df, continent, n)
         ELSE IF Len(continental_of(df, continent)) > 0
         THEN select_mixed(df, continent, n)
         ELSE select_global(df, n, scope_global_no_match)
    ELSE select_global(df, n, scope_global_unknown)

\* lines 80-128: the geographic prioritisation
select_top(df, continent, n) ==
    IF truthy(continent)
    THEN IF Len(continental_of(df, continent)) >= n
         THEN select_continental(df, continent, n)
         ELSE IF Len(continental_of(df, continent)) > 0
         THEN select_mixed(df, continent, n)
         ELSE select_global(df, n, scope_global_no_match)
    ELSE select_global(df, n, scope_global_unknown)

Select ==
    /\ pc = "select"
    /\ \E sel \in select_top(policies_to_rank, company_continent, limit) :
        /\ top_policies' = sel.top
        /\ geographic_scope' = sel.scope
    /\ pc' = "format"
    /\ UNCHANGED <<outside, files, company_name, limit, target, company_continent, steps,
                   policies_with_sectors, policies_to_rank, results, outcome,
                   error, model_loads, calls, prev>>

\* lines 153-161
geographic_reason(company_cont, policy_cont) ==
    IF truthy(company_cont) /\ policy_cont = company_cont
    THEN <<"Same continent (", company_cont, ")">>
    ELSE IF truthy(company_cont) /\ truthy(policy_cont)
    THEN <<"Different continent (", policy_cont, ")">>
    ELSE IF ~truthy(company_cont)
    THEN <<"Company continent unknown">>
    ELSE <<"Policy continent unknown">>

\* the bands include their lower ends: >= 0.8 and >= 0.6
similarity_reason_inclusive(score) ==
    IF score >= 8 THEN <<"High semantic similarity (", fmt_3f(score), ")">>
    ELSE IF score >= 6 THEN <<"Medium semantic similarity (", fmt_3f(score), ")">>
    ELSE <<"Low semantic similarity (", fmt_3f(score), ")">>

\* lines 163-169
similarity_reason(score) ==
    IF score > 8 THEN <<"High semantic similarity (", fmt_3f(score), ")">>
    ELSE IF score > 6 THEN <<"Medium semantic similarity (", fmt_3f(score), ")">>
    ELSE <<"Low semantic similarity (", fmt_3f(score), ")">>

\* lines 171-177
matching_sectors(parsed, company_sector) ==
    SelectSeq(parsed, LAMBDA t : \/ contains(lower(company_sector), lower(t))
                                  \/ contains(lower(t), lower(company_sector)))

RECURSIVE join_comma(_)
join_comma(xs) ==
    IF xs = <<>> THEN <<>>
    ELSE IF Len(xs) = 1 THEN xs[1]
    ELSE xs[1] \o <<",", " ">> \o join_comma(Tail(xs))

\* lines 150-181
relevance_reasons(policy, company_cont, company_sector) ==
    LET matched == matching_sectors(policy.parsed_sectors, company_sector)
    IN  <<geographic_reason(company_cont, policy.continent),
          similarity_reason(policy.sector_similarity)>>
        \o (IF matched # <<>>
            THEN << <<"Direct sector match: ">> \o join_comma(matched) >>
            ELSE <<>>)

\* lines 131-182: one result per selected row
format_results(top, scope, company_cont, company_sector) ==
    [k \in 1..Len(top) |->
        [rank |-> k,    \* enumerate(top_policies.iterrows(), 1)
         policy_id |-> top[k].id,
         geography |-> top[k].geography,
         continent |-> top[k].continent,
         policy_sectors |-> top[k].parsed_sectors,
         sector_text |-> top[k].sector_text,
         sector_similarity |-> top[k].sector_similarity,
         geographic_scope |-> scope,
         relevance_reasons |-> relevance_reasons(top[k], company_cont, company_sector)]]

\* lines 130-184
Format ==
    /\ pc = "format"
    /\ results' = format_results(top_policies, geographic_scope, company_continent,
                                 companies_df[target].sector)
    /\ outcome' = "returned"
    /\ pc' = "done"
    /\ UNCHANGED <<outside, files, company_name, limit, target, company_continent, steps,
                   policies_with_sectors, policies_to_rank, top_policies,
                   geographic_scope, error, model_loads, calls, prev>>

\* what the end of a call leaves of its locals
locals_gone ==
    /\ pc' = "idle"
    /\ company_name' = <<>>
    /\ limit' = 1
    /\ target' = 0
    /\ company_continent' = None
    /\ steps' = {}
    /\ policies_with_sectors' = <<>>
    /\ policies_to_rank' = <<>>
    /\ top_policies' = <<>>
    /\ geographic_scope' = <<>>
    /\ results' = <<>>
    /\ outcome' = "none"
    /\ error' = "none"

\* the call is over and the process ends; the next call is the first call of a
\* new process on the same files and the same build
Return ==
    /\ pc = "done"
    /\ locals_gone
    /\ model_loads' = 0
    /\ calls' = 0
    /\ prev' = NoCall
    /\ UNCHANGED <<outside, files>>

\* the call is over and the same process goes on to call again
ReturnToCaller ==
    /\ pc = "done"
    /\ calls < MaxCalls
    /\ locals_gone
    /\ prev' = [company_name |-> company_name, limit |-> limit,
                results |-> results, outcome |-> outcome]
    /\ UNCHANGED <<outside, files, model_loads, calls>>

Next ==
    \/ Call
    \/ FindCompany
    \/ ProcessPolicies
    \/ Encode
    \/ EncodeFails
    \/ Select
    \/ Format
    \/ Return

Spec == Init /\ [][Next]_vars

(***************************************************************************)
(* One process that calls the ranker several times, on files of at most    *)
(* two policies.                                                           *)
(***************************************************************************)
SmallSnapshots == {p \in PolicySnapshots : Len(p) <= 2}

InitCalls == InitWith(SmallSnapshots, Scores)

NextCalls ==
    \/ Call
    \/ FindCompany
    \/ ProcessPolicies
    \/ Encode
    \/ EncodeFails
    \/ Select
    \/ Format
    \/ ReturnToCaller

SpecCalls == InitCalls /\ [][NextCalls]_vars

(***************************************************************************)
(* Single calls on files of at most two policies, with similarities on,    *)
(* between and beside the band thresholds 0.6 and 0.8.                     *)
(***************************************************************************)
BandScores == {5, 6, 7, 8, 9}

InitBands == InitWith(SmallSnapshots, BandScores)

SpecBands == InitBands /\ [][Next]_vars

(***************************************************************************)
(* The helper functions called on their own.  A value is given as a sectors *)
(* cell is, with three more kinds:                                         *)
(*   kind "native" a Python list whose elements are the strings elems;     *)
(*   kind "other"  a value that is neither text nor a list, elems[1] is    *)
(*                 str() of it;                                            *)
(*   the empty string is kind "text" with elems[1] = <<>>.                 *)
(* What a call does is [raised, value]: the name of the exception that     *)
(* left it, or "none" and the value returned.                              *)
(***************************************************************************)
Ok(value) == [raised |-> "none", value |-> value]

Raises(e) == [raised |-> e, value |-> <<>>]

\* `if pd.isna(v)` on a Python list: pd.isna gives an array, whose truth value
\* is an error for two or more elements, the element's for one, and for none
\* False or an error, by the version of numpy
isna_of_list(elems) ==
    IF Len(elems) >= 2 THEN {"ValueError"}
    ELSE IF Len(elems) = 1 THEN {"False"}
    ELSE {"False", "ValueError"}

\* utils.py lines 56-67 on any value
parse_sector_list_outcomes(v) ==
    IF v.kind = "native"
    THEN {IF t = "ValueError" THEN Raises("ValueError") ELSE Ok(v.elems) :
            t \in isna_of_list(v.elems)}
    ELSE {Ok(parse_sector_list(v))}

\* str.split(',')
RECURSIVE split_comma(_)
split_comma(s) ==
    IF \A i \in 1..Len(s) : s[i] # "," THEN <<s>>
    ELSE LET i == CHOOSE k \in 1..Len(s) :
                    s[k] = "," /\ \A j \in 1..(k - 1) : s[j] # ","
         IN  <<SubSeq(s, 1, i - 1)>> \o split_comma(SubSeq(s, i + 1, Len(s)))

\* [str(item).strip() for item in xs if str(item).strip()]
stripped_non_empty(xs) ==
    SelectSeq([i \in 1..Len(xs) |-> strip(xs[i])], LAMBDA t : t # <<>>)

\* data_processor.py lines 201-220
parse_list_field_outcomes(v) ==
    IF v.kind = "nan" THEN {Ok(<<>>)}
    ELSE IF v.kind = "native"
    THEN {IF t = "ValueError" THEN Raises("ValueError")
          ELSE Ok(stripped_non_empty(v.elems)) : t \in isna_of_list(v.elems)}
    ELSE IF v.kind = "text" /\ v.elems[1] = <<>> THEN {Ok(<<>>)}
    ELSE IF v.kind = "list" THEN {Ok(stripped_non_empty(v.elems))}
    ELSE IF v.kind = "scalar" THEN {Ok(stripped_non_empty(<<v.elems[1]>>))}
    ELSE IF v.kind = "text"
    THEN {Ok(stripped_non_empty(split_comma(v.elems[1])))}
    ELSE {Ok(stripped_non_empty(<<v.elems[1]>>))}

ExceptionNames == {"KeyError", "AttributeError", "ValueError"}

\* utils.py lines 17-43 on a missing value or a text
get_continent_outcomes(v) ==
    LET r == get_continent(IF v.kind = "nan" THEN NaN ELSE v.elems[1])
    IN  {IF r \in ExceptionNames THEN Raises(r) ELSE Ok(<<r>>)}

Tags == {<<>>, <<" ">>, <<"W">>, <<" ", "W">>}

TagLists == UNION {[1..n -> Tags] : n \in 0..MaxTags}

Texts == {<<>>, <<" ">>, <<"W">>, <<"W", ",", " ", "H">>, <<"[", "W">>, <<",", " ">>}

ParserInputs ==
    {NanCell}
    \cup {[kind |-> k, elems |-> xs] : k \in {"list", "native"}, xs \in TagLists}
    \cup {[kind |-> k, elems |-> <<t>>] : k \in {"scalar", "other"}, t \in Tags}
    \cup {[kind |-> "text", elems |-> <<t>>] : t \in Texts}

Pads == {<<>>, <<" ">>}

Places ==
    {<<>>, <<"Kenya">>, <<"India">>, <<"USA">>, <<"US">>, <<"UK">>, <<"UAE">>,
     <<"usa">>, <<"United States">>, <<"Antarctica">>, <<"Atlantis">>}

GeographyInputs ==
    {NanCell}
    \cup {[kind |-> "text", elems |-> <<l \o w \o r>>] :
            l \in Pads, w \in Places, r \in Pads}

\* a helper function is about to be called on a value
InitUtils ==
    /\ ranker_idle({<<>>}, Scores)
    /\ util_pc = "ready"
    /\ \/ util_fn = "get_continent" /\ util_in \in GeographyInputs
       \/ util_fn \in {"parse_sector_list", "_parse_list_field"}
            /\ util_in \in ParserInputs
    /\ util_out = NoOutcome
    /\ report_off

ApplyGetContinent ==
    /\ util_pc = "ready"
    /\ util_fn = "get_continent"
    /\ util_out' \in get_continent_outcomes(util_in)
    /\ util_pc' = "done"
    /\ UNCHANGED <<ranker, report, util_in, util_fn>>

ApplyParseSectorList ==
    /\ util_pc = "ready"
    /\ util_fn = "parse_sector_list"
    /\ util_out' \in parse_sector_list_outcomes(util_in)
    /\ util_pc' = "done"
    /\ UNCHANGED <<ranker, report, util_in, util_fn>>

ApplyParseListField ==
    /\ util_pc = "ready"
    /\ util_fn = "_parse_list_field"
    /\ util_out' \in parse_list_field_outcomes(util_in)
    /\ util_pc' = "done"
    /\ UNCHANGED <<ranker, report, util_in, util_fn>>

NextUtils ==
    \/ ApplyGetContinent
    \/ ApplyParseSectorList
    \/ ApplyParseListField

SpecUtils == InitUtils /\ [][NextUtils]_vars

(***************************************************************************)
(* print_policy_ranking_report.  A printed line is [line, text]: which     *)
(* print statement wrote it, and the pieces of its text.  The columns a    *)
(* policy row does not have in the model (name, status, published date,    *)
(* description, URL) are printed as they are read and are left out; the    *)
(* row label stands for the policy's name.                                 *)
(***************************************************************************)
Line(kind, text) == [line |-> kind, text |-> text]

\* f'{x}' of a cell
str_of(x) == IF isna(x) THEN <<"nan">> ELSE x

\* x or default
or_else(x, default) == IF truthy(x) THEN x ELSE default

\* line 206
not_found_line(name) == Line("not_found", <<"Company '">> \o name \o <<"' not found">>)

\* line 212
finding_line(l) ==
    Line("finding", <<"Finding top ", int_str(l), " policies most relevant to company...">>)

\* line 249
error_line(e) == Line("error", <<"Error generating policy ranking report: ", e>>)

\* lines 217-222
header_lines(company, continent) ==
    <<Line("banner", <<"POLICY RANKING REPORT (Sentence Transformers + Geographic)">>),
      Line("rule", <<"=">>),
      Line("target_company", <<"Target Company: ">> \o str_of(company.name)),
      Line("company_sector", <<"Company Sector: ">> \o str_of(company.sector)),
      Line("company_jurisdiction",
           <<"Company Jurisdiction: ">> \o str_of(company.operating_jurisdiction)),
      Line("company_continent", <<"Company Continent: ", or_else(continent, "Unknown")>>)>>

\* lines 235-242
policy_lines(policy) ==
    <<Line("rank", <<"#", int_str(policy.rank), " ", int_str(policy.policy_id)>>),
      Line("score", <<"   Similarity Score: ", fmt_3f(policy.sector_similarity)>>),
      Line("geography",
           <<"   Geography: ">> \o str_of(policy.geography)
               \o <<" (", or_else(policy.continent, "Unknown continent"), ")">>),
      Line("sectors", <<"   Policy Sectors: ">> \o join_comma(policy.policy_sectors)),
      Line("why", <<"   Why Relevant: ">> \o join_comma(policy.relevance_reasons))>>

\* for policy in policies
RECURSIVE all_policy_lines(_)
all_policy_lines(policies) ==
    IF policies = <<>> THEN <<>>
    ELSE policy_lines(Head(policies)) \o all_policy_lines(Tail(policies))

\* lines 217-246
report_lines(company, continent, l, policies) ==
    header_lines(company, continent)
    \o (IF policies # <<>>
        THEN <<Line("scope", <<"Search Scope: ">> \o policies[1].geographic_scope)>>
        ELSE <<>>)
    \o <<Line("top", <<"TOP ", int_str(l), " MOST RELEVANT POLICIES">>),
         Line("rule", <<"-">>)>>
    \o (IF policies = <<>>
        THEN <<Line("no_policies", <<"No policies found with sector information.">>)>>
        ELSE all_policy_lines(policies))

\* an except clause that names the lookup errors only
report_catches_lookup_errors(e) == e \in ExceptionNames

\* line 248, except Exception: every exception of the model is an Exception
report_catches(e) == e \in {e}

\* the exception e reaches the end of the try block, so_far having been printed
report_except(e, so_far) ==
    /\ IF report_catches(e)
       THEN printed' = Append(so_far, error_line(e)) /\ report_error' = "none"
       ELSE printed' = so_far /\ report_error' = e
    /\ report_pc' = "done"

\* print_policy_ranking_report(company_name, limit) is called
ReportCall ==
    /\ report_pc = "idle"
    /\ \E name \in QueryNames, l \in Limits :
        report_call' = [company_name |-> name, limit |-> l]
    /\ report_pc' = "find"
    /\ UNCHANGED <<ranker, utils, report_target, printed, report_error>>

\* lines 196-215: find the company and call the ranker with the same arguments
ReportFindCompany ==
    /\ report_pc = "find"
    /\ IF ~re_compile_ok(report_call.company_name)
       THEN /\ report_except("re.error", printed)
            /\ UNCHANGED <<ranker, report_target>>
       ELSE LET target_company ==
                    matching_companies(companies_df, report_call.company_name)
            IN  IF target_company = {}
                THEN /\ printed' = Append(printed, not_found_line(report_call.company_name))
                     /\ report_pc' = "done"
                     /\ UNCHANGED <<ranker, report_target, report_error>>
                ELSE /\ report_target' = CHOOSE i \in target_company :
                                             \A j \in target_company : i <= j
                     /\ printed' = Append(printed, finding_line(report_call.limit))
                     /\ report_pc' = "rank"
                     /\ pc = "idle"
                     /\ company_name' = report_call.company_name
                     /\ limit' = report_call.limit
                     /\ pc' = "find"
                     /\ calls' = calls + 1
                     /\ UNCHANGED <<files, target, company_continent, steps,
                                    policies_with_sectors, policies_to_rank,
                                    top_policies, geographic_scope, results, outcome,
                                    error, model_loads, prev, report_error>>
    /\ UNCHANGED <<utils, report_call>>

\* lines 215-249: the ranker has returned or raised
ReportPrint ==
    /\ report_pc = "rank"
    /\ pc = "done"
    /\ IF outcome = "raised"
       THEN report_except(error, printed)
       ELSE /\ printed' = printed \o
                    report_lines(companies_df[report_target],
                                 get_continent(companies_df[report_target].operating_jurisdiction),
                                 report_call.limit, results)
            /\ report_pc' = "done"
            /\ UNCHANGED report_error
    /\ UNCHANGED <<ranker, utils, report_call, report_target>>

\* the report is over and the process ends
ReportReturn ==
    /\ report_pc = "done"
    /\ report_pc' = "idle"
    /\ report_call' = NoArguments
    /\ report_target' = 0
    /\ printed' = <<>>
    /\ report_error' = "none"
    /\ locals_gone
    /\ model_loads' = 0
    /\ calls' = 0
    /\ prev' = NoCall
    /\ UNCHANGED <<files, utils>>

InitReport ==
    /\ ranker_idle(SmallSnapshots, Scores)
    /\ utils_off
    /\ report_locals("idle")

NextReport ==
    \/ ReportCall
    \/ ReportFindCompany
    \/ FindCompany
    \/ ProcessPolicies
    \/ Encode
    \/ EncodeFails
    \/ Select
    \/ Format
    \/ ReportPrint
    \/ ReportReturn

SpecReport == InitReport /\ [][NextReport]_vars

(***************************************************************************)
(* Vocabulary of the properties                                            *)
(***************************************************************************)
Returned == pc = "done" /\ outcome = "returned"

ContinentKnown == company_continent # None

IsSame(r) == r.continent = company_continent

SameRows == {i \in 1..Len(policies_to_rank) : IsSame(policies_to_rank[i])}

OtherRows == {i \in 1..Len(policies_to_rank) : ~IsSame(policies_to_rank[i])}

SameCount == Cardinality(SameRows)

OtherCount == Cardinality(OtherRows)

\* the results at positions lo..hi are non-increasing in similarity
Descending(lo, hi) ==
    \A i, j \in lo..hi :
        i < j => results[i].sector_similarity >= results[j].sector_similarity

\* the results at positions lo..hi are distinct rows of `rows` (labels into
\* policies_to_rank), carrying those rows' ids and similarities, and no row
\* left out has a higher similarity than a row taken
TopOf(lo, hi, rows) ==
    \E f \in [lo..hi -> rows] :
        /\ \A i, j \in lo..hi : i # j => f[i] # f[j]
        /\ \A i \in lo..hi :
            /\ results[i].policy_id = policies_to_rank[f[i]].id
            /\ results[i].sector_similarity = policies_to_rank[f[i]].sector_similarity
            /\ results[i].continent = policies_to_rank[f[i]].continent
        /\ \A r \in rows \ {f[i] : i \in lo..hi} : \A i \in lo..hi :
            policies_to_rank[r].sector_similarity <= results[i].sector_similarity

AllScope(label) == \A k \in 1..Len(results) : results[k].geographic_scope = label

(***************************************************************************)
(* C1: when a call is over, the list it returned is never longer than      *)
(* limit, whichever branch produced it.                                    *)
(***************************************************************************)
C1_LengthAtMostLimit == pc = "done" => Len(results) <= limit

C1_Witness ==
    /\ Returned
    /\ Len(policies_to_rank) > limit
    /\ Len(results) = limit
    /\ geographic_scope[1] = "Mixed ("
    /\ OtherCount > limit - SameCount

(***************************************************************************)
(* C2: with a known company continent and 0 < count(same continent) <      *)
(* limit, every same-continent result precedes every other-continent       *)
(* result, whatever their similarities.                                    *)
(***************************************************************************)
C2_PartitionOrdering ==
    (Returned /\ ContinentKnown /\ SameCount > 0 /\ SameCount < limit) =>
        \A i, j \in 1..Len(results) :
            (IsSame(results[i]) /\ ~IsSame(results[j])) => i < j

C2_Witness ==
    /\ Returned /\ ContinentKnown /\ SameCount > 0 /\ SameCount < limit
    /\ \E i, j \in 1..Len(results) :
        /\ IsSame(results[i]) /\ ~IsSame(results[j])
        /\ results[j].sector_similarity > results[i].sector_similarity

C4_Original ==
    (Returned /\ ContinentKnown /\ SameCount >= limit) =>
        /\ Len(results) = limit
        /\ TopOf(1, limit, SameRows)
        /\ Descending(1, limit)
        /\ \A k \in 1..Len(results) : IsSame(results[k])
        /\ AllScope(<<"Continental">>)

(***************************************************************************)
(* C4 amended: as above, but the scope label every result carries is       *)
(* "Continental (<company continent>)", e.g. "Continental (Africa)".       *)
(***************************************************************************)
C4_ExactFill ==
    (Returned /\ ContinentKnown /\ SameCount >= limit) =>
        /\ Len(results) = limit
        /\ TopOf(1, limit, SameRows)
        /\ Descending(1, limit)
        /\ \A k \in 1..Len(results) : IsSame(results[k])
        /\ AllScope(<<"Continental (", company_continent, ")">>)

\* equality at the threshold, with a better other-continent policy left out
C4_Witness ==
    /\ Returned /\ ContinentKnown
    /\ SameCount = limit /\ limit = 2
    /\ \E i \in OtherRows : \E k \in 1..Len(results) :
        policies_to_rank[i].sector_similarity > results[k].sector_similarity
    /\ results[1].geographic_scope = <<"Continental (", "Africa", ")">>

(***************************************************************************)
(* C5: two results of the same partition with equal similarity appear in   *)
(* snapshot order (the sort is stable).  The partitions are the            *)
(* same-continent and the other-continent group when the company           *)
(* continent is known, and the whole list when it is not.                  *)
(***************************************************************************)
C5_StableTies ==
    Returned =>
        \A i, j \in 1..Len(results) :
            ( /\ i < j
              /\ results[i].sector_similarity = results[j].sector_similarity
              /\ (ContinentKnown => (IsSame(results[i]) <=> IsSame(results[j]))) )
            => results[i].policy_id < results[j].policy_id

(***************************************************************************)
(* C6: a call that returns (it did not raise) returns the empty list       *)
(* exactly when the company was not found or no policy of the snapshot has *)
(* a non-empty sector text.                                                *)
(***************************************************************************)
NoSectorTextAnywhere ==
    \A i \in 1..Len(policies_df) :
        sector_text_of(parse_sector_list(policies_df[i].sectors)) = <<>>

C6_EmptyIff ==
    (pc = "done" /\ outcome # "raised") =>
        (results = <<>> <=> (target = 0 \/ NoSectorTextAnywhere))

C6_Witness ==
    /\ Returned
    /\ target # 0
    /\ ~NoSectorTextAnywhere
    /\ Len(policies_with_sectors) < Len(policies_df)
    /\ limit = 1
    /\ Len(results) = 1

(***************************************************************************)
(* C7: every returned policy has at least one sector tag that is not empty *)
(* and not only blanks: policies whose sectors are missing, parse to an    *)
(* empty list or parse only to empty or blank tags are never returned.     *)
(***************************************************************************)
HasRealTag(tags) == \E k \in 1..Len(tags) : strip(tags[k]) # <<>>

C7_OnlyRealSectorText ==
    Returned => \A k \in 1..Len(results) : HasRealTag(results[k].policy_sectors)

(***************************************************************************)
(* C8: the ranks of a returned list are 1..n in output order, and          *)
(* similarity does not increase with rank inside the same-continent group  *)
(* and inside the other-continent group (over the whole list when the      *)
(* company continent is unknown).                                          *)
(***************************************************************************)
C8_RanksAndOrder ==
    Returned =>
        /\ \A k \in 1..Len(results) : results[k].rank = k
        /\ \A i, j \in 1..Len(results) :
            ( /\ i < j
              /\ (ContinentKnown => (IsSame(results[i]) <=> IsSame(results[j]))) )
            => results[i].sector_similarity >= results[j].sector_similarity

C8_Witness ==
    /\ Returned
    /\ Len(results) = 2
    /\ results[2].rank = 2
    /\ results[1].sector_similarity > results[2].sector_similarity
    /\ results[1].policy_id > results[2].policy_id

(***************************************************************************)
(* C9: when the company's jurisdiction resolves to no continent, the       *)
(* result is the best limit surviving policies in descending similarity,   *)
(* whatever their continents, and the label is                             *)
(* "Global (company continent unknown)".                                   *)
(***************************************************************************)
AllRows == 1..Len(policies_to_rank)

C9_UnknownContinentGlobal ==
    (Returned /\ get_continent(companies_df[target].operating_jurisdiction) = None) =>
        LET n == Min(limit, Len(policies_to_rank))
        IN  /\ Len(results) = n
            /\ TopOf(1, n, AllRows)
            /\ Descending(1, n)
            /\ AllScope(<<"Global (company continent unknown)">>)

C9_Witness ==
    /\ Returned
    /\ strip(companies_df[target].operating_jurisdiction) = <<"Atlantis">>
    /\ Len(policies_to_rank) > limit
    /\ \E i, j \in 1..Len(results) :
        results[i].continent = "Africa" /\ results[j].continent = "Asia"
    /\ results[1].geographic_scope = <<"Global (company continent unknown)">>

(***************************************************************************)
(* C10: for every query string, when no company name contains the query    *)
(* as a case-insensitive substring the call ends with the                  *)
(* company-not-found condition and an empty list, does not raise, and has  *)
(* parsed, embedded and scored nothing.                                    *)
(***************************************************************************)
NoSubstringMatch ==
    \A i \in 1..Len(companies_df) :
        \/ isna(companies_df[i].name)
        \/ ~contains(lower(companies_df[i].name), lower(company_name))

C10_NotFoundIsEmptyNotRaised ==
    (pc = "done" /\ NoSubstringMatch) =>
        /\ outcome = "CompanyNotFound"
        /\ results = <<>>
        /\ steps = {}

(***************************************************************************)
(* C11: when the company is found and every policy's sectors parse to an   *)
(* empty list, the call ends with an empty result and the                  *)
(* no-candidate-policies condition without having loaded or used the       *)
(* embedding model; and in every call the model is loaded only after the   *)
(* sectors were parsed and some policy was left.                           *)
(***************************************************************************)
AllParseEmpty ==
    \A i \in 1..Len(policies_df) : parse_sector_list(policies_df[i].sectors) = <<>>

C11_NoCandidatesNoEmbedding ==
    /\ (pc = "done" /\ target # 0 /\ AllParseEmpty) =>
        /\ outcome = "NoCandidatePolicies"
        /\ results = <<>>
        /\ error = "none"
        /\ steps \cap {"load", "encode", "score"} = {}
    /\ "load" \in steps => ("parse" \in steps /\ policies_with_sectors # <<>>)

C11_Witness ==
    /\ pc = "done"
    /\ target # 0
    /\ Len(policies_df) >= 2
    /\ AllParseEmpty
    /\ outcome = "NoCandidatePolicies"
    /\ steps = {"parse"}

(***************************************************************************)
(* C13: when the embedding model fails to load or to encode, the call ends *)
(* there with an exception: no selection is made, no list is returned, and *)
(* the outcome is neither a ranking nor one of the two empty-result        *)
(* conditions.                                                             *)
(***************************************************************************)
C13_EmbeddingFailureIsFatal ==
    error = "EmbeddingBackendError" =>
        /\ pc = "done"
        /\ outcome = "raised"
        /\ top_policies = <<>>
        /\ results = <<>>

C13_Witness ==
    /\ pc = "done"
    /\ error = "EmbeddingBackendError"
    /\ "encode" \in steps
    /\ Len(policies_with_sectors) >= 2

(***************************************************************************)
(* C19: a returned list labelled "Mixed (C continental + G global)" holds  *)
(* exactly C same-continent policies and exactly G other policies (those   *)
(* of unknown continent included), each policy once.                       *)
(***************************************************************************)
SameInResults == {k \in 1..Len(results) : IsSame(results[k])}

OtherInResults == {k \in 1..Len(results) : ~IsSame(results[k])}

C19_MixedLabelMatchesResult ==
    (Returned /\ geographic_scope[1] = "Mixed (") =>
        /\ geographic_scope[2] = int_str(Cardinality(SameInResults))
        /\ geographic_scope[4] = int_str(Cardinality(OtherInResults))
        /\ \A i, j \in 1..Len(results) :
            i # j => results[i].policy_id # results[j].policy_id

(***************************************************************************)
(* C12: a process constructs the embedding model at most once, however     *)
(* many ranking calls it makes.                                            *)
(***************************************************************************)
C12_ModelLoadedAtMostOnce == model_loads <= 1

(***************************************************************************)
(* C16: when a process calls the ranker twice in a row with the same       *)
(* company name and limit on the same files, and both calls return, the    *)
(* second returns the list the first returned: same policies, order,       *)
(* ranks, scores, scope label and reasons, ties included.                  *)
(***************************************************************************)
C16_Determinism ==
    ( /\ Returned
      /\ prev.outcome = "returned"
      /\ prev.company_name = company_name
      /\ prev.limit = limit )
    => results = prev.results

\* the repeated call ranked two policies of equal similarity
C16_Witness ==
    /\ Returned
    /\ prev.outcome = "returned"
    /\ prev.company_name = company_name
    /\ prev.limit = limit
    /\ Len(results) = 2
    /\ results[1].sector_similarity = results[2].sector_similarity
    /\ results[1].policy_id > results[2].policy_id

(***************************************************************************)
(* C17: the reasons of every result start with exactly one continent       *)
(* narrative (same continent iff the company's continent is known and is   *)
(* the policy's; different continent iff both are known and differ;        *)
(* otherwise an unknown narrative), followed by exactly one similarity     *)
(* narrative: High iff similarity > 0.8, Medium iff 0.6 < similarity <=    *)
(* 0.8, Low otherwise.  Nothing after them is a continent or similarity    *)
(* narrative.                                                              *)
(***************************************************************************)
ContinentNarratives ==
    {"Same continent (", "Different continent (", "Company continent unknown",
     "Policy continent unknown"}

BandNarratives ==
    {"High semantic similarity (", "Medium semantic similarity (",
     "Low semantic similarity ("}

C17_Reasons ==
    Returned =>
        \A k \in 1..Len(results) :
            LET r == results[k]
                rs == r.relevance_reasons
                same == ContinentKnown /\ r.continent = company_continent
                differ == /\ ContinentKnown /\ r.continent # None
                          /\ r.continent # company_continent
            IN  /\ Len(rs) >= 2
                /\ rs[1][1] \in ContinentNarratives
                /\ rs[1][1] = "Same continent (" <=> same
                /\ rs[1][1] = "Different continent (" <=> differ
                /\ rs[2][1] \in BandNarratives
                /\ rs[2][1] = "High semantic similarity (" <=> r.sector_similarity > 8
                /\ rs[2][1] = "Medium semantic similarity (" <=>
                       (r.sector_similarity > 6 /\ r.sector_similarity <= 8)
                /\ \A j \in 3..Len(rs) :
                       rs[j][1] \notin ContinentNarratives \cup BandNarratives

\* a similarity of exactly 0.8 told as Medium and one of exactly 0.6 as Low
C17_Witness ==
    /\ Returned
    /\ Len(results) = 2
    /\ results[1].sector_similarity = 8
    /\ results[1].relevance_reasons[2][1] = "Medium semantic similarity ("
    /\ results[2].sector_similarity = 6
    /\ results[2].relevance_reasons[2][1] = "Low semantic similarity ("
    /\ results[1].relevance_reasons[1][1] = "Same continent ("
    /\ results[2].relevance_reasons[1][1] = "Policy continent unknown"

(***************************************************************************)
(* The helper functions                                                    *)
(***************************************************************************)
Applied(fn) == util_pc = "done" /\ util_fn = fn

OnlyTrimmedNonEmpty(out) ==
    /\ out.raised = "none"
    /\ \A i \in 1..Len(out.value) :
          out.value[i] # <<>> /\ strip(out.value[i]) = out.value[i]

\* C14: whatever the value, parse_sector_list and _parse_list_field do not
\* raise and return only strings that are not empty and carry no whitespace
\* at either end.
C14_ParsersTotalAndTrimmed ==
    (Applied("parse_sector_list") \/ Applied("_parse_list_field"))
        => OnlyTrimmedNonEmpty(util_out)

ContinentNames == {"Africa", "Asia", "North America", "Europe"}

AliasContinent ==
    [a \in {"USA", "US", "UK", "UAE"} |->
        CASE a = "USA" -> "North America"
          [] a = "US" -> "North America"
          [] a = "UK" -> "Europe"
          [] a = "UAE" -> "Asia"]

\* C15: whatever the input, get_continent does not raise and returns a
\* continent name or None; an alias surrounded by whitespace gives the
\* continent of the country it stands for.
C15_GetContinentTotal ==
    Applied("get_continent") =>
        /\ util_out.raised = "none"
        /\ Len(util_out.value) = 1
        /\ util_out.value[1] \in ContinentNames \cup {None}
        /\ \A a \in DOMAIN AliasContinent, l \in Pads, r \in Pads :
              (util_in.kind = "text" /\ util_in.elems[1] = l \o <<a>> \o r)
                  => util_out.value[1] = AliasContinent[a]
        /\ util_in.kind = "nan" => util_out.value[1] = None

\* a country with no continent in the tables has been looked up
C15_Witness ==
    /\ Applied("get_continent")
    /\ util_in = [kind |-> "text", elems |-> <<(<<" ", "Antarctica">>)>>]
    /\ util_out = Ok(<<None>>)

(***************************************************************************)
(* The report                                                              *)
(***************************************************************************)
ReportDone == report_pc = "done"

LinesOf(kind) == SelectSeq(printed, LAMBDA ln : ln.line = kind)

LastLine == printed[Len(printed)]

ReportedCompanies == matching_companies(companies_df, report_call.company_name)

\* C18: print_policy_ranking_report lets no exception reach its caller.  When
\* no company matches it prints the not-found line only and the ranker has
\* not been called; when the ranker returns no policy it ends on the
\* no-policies line; when the lookup or the ranker raises it ends on the
\* error line and prints no policy; when the ranker returns policies it
\* prints one entry for each, in the ranker's order, with the ranker's rank,
\* score (to three decimals) and reasons.
C18_ReportNeverRaises ==
    /\ report_error = "none"
    /\ ReportDone =>
        /\ (re_compile_ok(report_call.company_name) /\ ReportedCompanies = {})
             => /\ printed = <<not_found_line(report_call.company_name)>>
                /\ calls = 0
        /\ ~re_compile_ok(report_call.company_name)
             => printed = <<error_line("re.error")>> /\ calls = 0
        /\ (pc = "done" /\ outcome = "raised")
             => /\ LastLine = error_line(error)
                /\ LinesOf("rank") = <<>>
        /\ (pc = "done" /\ outcome # "raised" /\ results = <<>>)
             => /\ LastLine.line = "no_policies"
                /\ LinesOf("rank") = <<>>
                /\ LinesOf("error") = <<>>
        /\ results # <<>>
             => /\ LinesOf("error") = <<>>
                /\ LinesOf("no_policies") = <<>>
                /\ LinesOf("rank") =
                      [i \in 1..Len(results) |->
                          Line("rank", <<"#", int_str(results[i].rank), " ",
                                         int_str(results[i].policy_id)>>)]
                /\ LinesOf("score") =
                      [i \in 1..Len(results) |->
                          Line("score", <<"   Similarity Score: ",
                                          fmt_3f(results[i].sector_similarity)>>)]
                /\ LinesOf("why") =
                      [i \in 1..Len(results) |->
                          Line("why", <<"   Why Relevant: ">>
                                      \o join_comma(results[i].relevance_reasons))]

\* the embedding backend failed under the report, which printed the diagnostic
C18_Witness ==
    /\ ReportDone
    /\ error = "EmbeddingBackendError"
    /\ LastLine = error_line("EmbeddingBackendError")
    /\ report_error = "none"

====
